---- MODULE Spec2Model ----
(***************************************************************************)
(* Layer assignment and grid materialisation of the circuit drawer:       *)
(* pennylane/circuit_drawer/drawable_layers.py                             *)
(*   _recursive_find_layer, drawable_layers, drawable_grid.                *)
(*                                                                         *)
(* Python lists are 0-indexed; the sequences below are 1-indexed, so the   *)
(* list entry  lst[k]  of the source is  lst[k + 1]  here.                 *)
(*                                                                         *)
(* Both functions are modelled for calls that pass wire_map; the branch    *)
(* wire_map is None calls default_wire_map of .utils, which is not part of *)
(* this file, and then goes on as a call with that map.                    *)
(***************************************************************************)
EXTENDS Integers, Sequences, FiniteSets

\* ------------------------------------------------------------------ bounds
\* longest operation sequence handed to the functions
MaxOps == 3
\* the wire labels operations may act on, in a fixed order
LabelSeq == <<"a", "b", "c">>
Labels == {LabelSeq[k] : k \in 1..Len(LabelSeq)}

\* the integers a wire map may assign to a label: those a dense map of all
\* labels uses
WireIdx == 0..(Len(LabelSeq) - 1)

\* ------------------------------------------------------------- data model
\* An operation object: `id` is the object identity (set membership of
\* operators is by identity), `wires` the labels of op.wires.  The code uses
\* op.wires only through len(), a set comprehension and an iteration whose
\* body does not depend on the position, so the labels are kept as a set.
Operator == [id : 1..MaxOps, wires : SUBSET Labels]

\* the empty grid cell (Python None, line 131)
None == [id |-> 0, wires |-> {}]

\* wire_map: a dict from some of the labels to non-negative integers.  The
\* code uses a label only as a dict key, so a renaming of the labels maps a
\* run onto a run; up to such a renaming the keys are the first labels of
\* LabelSeq and their values do not decrease along it.  The dicts cover the
\* dense maps (values 0..n-1), maps with gaps or with values beyond the
\* number of their keys, maps that send two labels to one integer, and maps
\* that miss labels.
WireMaps ==
    UNION {{m \in [{LabelSeq[k] : k \in 1..d} -> WireIdx] :
              \A j, k \in 1..d : j < k => m[LabelSeq[j]] <= m[LabelSeq[k]]}
           : d \in 0..Len(LabelSeq)}

\* Operation sequences, up to renaming of the identities: the first object
\* is 1, a position either repeats an earlier object or introduces the next
\* identity; one object has one op.wires.
OpSeqs ==
    UNION {{s \in [1..n -> Operator] :
              /\ \A k \in 1..n :
                    \/ \E j \in 1..(k - 1) : s[j].id = s[k].id
                    \/ s[k].id = 1 + Cardinality({s[j].id : j \in 1..(k - 1)})
              /\ \A j, k \in 1..n : s[j].id = s[k].id => s[j].wires = s[k].wires}
           : n \in 0..MaxOps}

VARIABLES
    ops,                        \* argument ops
    wire_map,                   \* argument wire_map
    pc,                         \* position in the code
    error,                      \* exception that ended the call, or "none"
    i,                          \* number of operations the for loop has taken
    max_layer,                  \* drawable_layers: max_layer
    occupied_wires_per_layer,   \* drawable_layers: occupied_wires_per_layer
    ops_in_layer,               \* drawable_layers: ops_in_layer
    op_layers,                  \* op_layer of every finished loop iteration
    grid,                       \* drawable_grid: grid (rows of columns)
    layer,                      \* drawable_grid: index of enumerate(ops_in_layer)
    layer_ops,                  \* drawable_grid: members of the layer not yet iterated
    grid2                       \* grid of a second call of drawable_grid(ops, wire_map)

vars == <<ops, wire_map, pc, error, i, max_layer, occupied_wires_per_layer,
          ops_in_layer, op_layers, grid, layer, layer_ops, grid2>>

\* ---------------------------------------------------------------- helpers
Max(S) == CHOOSE x \in S : \A y \in S : y <= x
Min(S) == CHOOSE x \in S : \A y \in S : x <= y

\* the number of wires counted over the labels the operations use
n_wires_used ==
    Cardinality(UNION {ops[k].wires : k \in 1..Len(ops)} \cap DOMAIN wire_map)

\* n_wires = len(wire_map)
n_wires == Cardinality(DOMAIN wire_map)

\* set(wire_map.values())
WireMapValues == {wire_map[w] : w \in DOMAIN wire_map}

\* the lookup that answers 0 for a label the wire map does not hold
wire_map_lookup_default(w) == IF w \in DOMAIN wire_map THEN wire_map[w] ELSE 0

\* wire_map[wire] (lines 81, 141): the integer of the label; -1 stands for
\* the KeyError a dict raises for a key it does not hold
wire_map_lookup(w) == IF w \in DOMAIN wire_map THEN wire_map[w] ELSE -1

\* wire_map[wire] raises KeyError for some wire of op
KeyErrorOn(op) == \E w \in op.wires : wire_map_lookup(w) = -1

\* mapped_wires that does not treat an operation without wires specially
mapped_wires_no_broadcast(op) == {wire_map[w] : w \in op.wires}

\* mapped_wires of the loop body
mapped_wires(op) ==
    IF op.wires = {} THEN WireMapValues
    ELSE {wire_map_lookup(w) : w \in op.wires}

\* op_occupied_wires without the wires between the used ones
op_occupied_wires_used_only(op) == mapped_wires(op)

\* op_occupied_wires of the loop body
op_occupied_wires(op) ==
    IF op.wires = {} THEN mapped_wires(op)
    ELSE Min(mapped_wires(op))..Max(mapped_wires(op))

\* the search that puts the operation into the occupied layer itself
RECURSIVE find_layer_into_occupied(_, _, _)
find_layer_into_occupied(layer_to_check, occ_wires, occ_per_layer) ==
    IF occ_per_layer[layer_to_check + 1] \cap occ_wires # {}
    THEN layer_to_check
    ELSE IF layer_to_check = 0
         THEN 0
         ELSE find_layer_into_occupied(layer_to_check - 1, occ_wires, occ_per_layer)

\* the search that never pushes the operation back past a free layer
find_layer_no_push(layer_to_check, occ_wires, occ_per_layer) ==
    IF occ_per_layer[layer_to_check + 1] \cap occ_wires # {}
    THEN layer_to_check + 1
    ELSE layer_to_check

\* the search that skips the layer above an occupied one
RECURSIVE find_layer_past_end(_, _, _)
find_layer_past_end(layer_to_check, occ_wires, occ_per_layer) ==
    IF occ_per_layer[layer_to_check + 1] \cap occ_wires # {}
    THEN layer_to_check + 2
    ELSE IF layer_to_check = 0
         THEN 0
         ELSE find_layer_past_end(layer_to_check - 1, occ_wires, occ_per_layer)

RECURSIVE _recursive_find_layer(_, _, _)
_recursive_find_layer(layer_to_check, occ_wires, occ_per_layer) ==
    IF occ_per_layer[layer_to_check + 1] \cap occ_wires # {}
    THEN layer_to_check + 1
    ELSE IF layer_to_check = 0
         THEN 0
         ELSE _recursive_find_layer(layer_to_check - 1, occ_wires, occ_per_layer)

\* the indices of occupied_wires_per_layer the search reads (line 41), one
\* per activation of _recursive_find_layer, in the order of the reads
RECURSIVE find_layer_reads(_, _, _)
find_layer_reads(layer_to_check, occ_wires, occ_per_layer) ==
    <<layer_to_check>> \o
        (IF occ_per_layer[layer_to_check + 1] \cap occ_wires # {}
         THEN <<>>
         ELSE IF layer_to_check = 0
              THEN <<>>
              ELSE find_layer_reads(layer_to_check - 1, occ_wires, occ_per_layer))

\* ------------------------------------------------------------------- Init
Init ==
    /\ ops \in OpSeqs
    /\ wire_map \in WireMaps
    /\ pc = "start"
    /\ error = "none"
    /\ i = 0
    /\ max_layer = 0
    /\ occupied_wires_per_layer = <<>>
    /\ ops_in_layer = <<>>
    /\ op_layers = <<>>
    /\ grid = <<>>
    /\ layer = 0
    /\ layer_ops = {}
    /\ grid2 = <<>>

\* ---------------------------------------------------------------- actions
\* drawable_layers, lines 68-71: the initialisation before the loop
InitLayers ==
    /\ max_layer' = 0
    /\ occupied_wires_per_layer' = <<{}>>
    /\ ops_in_layer' = <<{}>>

\* drawable_layers is called with an explicit wire_map: by the user, or by
\* drawable_grid (line 126) for a non-empty ops.  Its run is the same for
\* both callers, so the model holds one copy of it; drawable_grid goes on
\* from the state in which drawable_layers has returned (GridAlloc).
EnterLayers ==
    /\ pc = "start"
    /\ InitLayers
    /\ pc' = "loop"
    /\ UNCHANGED <<ops, wire_map, error, i, op_layers, grid, layer, layer_ops, grid2>>

\* the result for an empty ops without the case of an empty wire map
EmptyGrid_no_placeholder(rows) == [w \in 1..rows |-> <<>>]

\* lines 122-124: the result for an empty ops
EmptyGrid(rows) ==
    IF rows = 0 THEN <<(<<>>)>>
    ELSE [w \in 1..rows |-> <<>>]

\* drawable_grid, lines 119-124: the returns for an empty ops
EnterGridEmpty ==
    /\ pc = "start"
    /\ Len(ops) = 0
    /\ grid' = EmptyGrid(n_wires)
    /\ pc' = "grid_done"
    /\ UNCHANGED <<ops, wire_map, error, i, max_layer, occupied_wires_per_layer,
                   ops_in_layer, op_layers, layer, layer_ops, grid2>>

\* the test that also appends when the operation fits the last layer
NeedNewLayer_eager(op_layer, cur_max_layer) == op_layer >= cur_max_layer

\* line 90: does the loop body append a new layer?
NeedNewLayer(op_layer, cur_max_layer) == op_layer > cur_max_layer

\* lines 92-93: list.append(set())
AppendLayer(lst) == Append(lst, {})

\* the layer is replaced by the operation instead of gaining it
AddOp_replace(lays, op_layer, op) == [lays EXCEPT ![op_layer + 1] = {op}]

\* line 96: ops_in_layer[op_layer].add(op)
AddOp(lays, op_layer, op) == [lays EXCEPT ![op_layer + 1] = @ \cup {op}]

\* the occupancy of the layer is replaced by that of the operation
UpdateOccupied_replace(occs, op_layer, occ) == [occs EXCEPT ![op_layer + 1] = occ]

\* line 97: occupied_wires_per_layer[op_layer].update(op_occupied_wires)
UpdateOccupied(occs, op_layer, occ) == [occs EXCEPT ![op_layer + 1] = @ \cup occ]

\* one iteration of the loop of drawable_layers, lines 74-97
LoopBody ==
    /\ pc = "loop"
    /\ i < Len(ops)
    /\ LET op == ops[i + 1] IN
       IF KeyErrorOn(op)
       THEN /\ pc' = "error"
            /\ error' = "KeyError"
            /\ UNCHANGED <<i, max_layer, occupied_wires_per_layer, ops_in_layer,
                           op_layers>>
       ELSE LET occ == op_occupied_wires(op)
                op_layer == _recursive_find_layer(max_layer, occ,
                                                  occupied_wires_per_layer)
                grown == NeedNewLayer(op_layer, max_layer)
                occs == IF grown THEN AppendLayer(occupied_wires_per_layer)
                        ELSE occupied_wires_per_layer
                lays == IF grown THEN AppendLayer(ops_in_layer)
                        ELSE ops_in_layer
            IN  /\ max_layer' = IF grown THEN max_layer + 1 ELSE max_layer
                /\ ops_in_layer' = AddOp(lays, op_layer, op)
                /\ occupied_wires_per_layer' = UpdateOccupied(occs, op_layer, occ)
                /\ op_layers' = Append(op_layers, op_layer)
                /\ i' = i + 1
                /\ UNCHANGED <<pc, error>>
    /\ UNCHANGED <<ops, wire_map, grid, layer, layer_ops, grid2>>

\* n_layers = len(ops_in_layer)
n_layers == Len(ops_in_layer)

\* the grid that is one column short
NewGrid_short(rows, cols) == [w \in 1..rows |-> [l \in 1..(cols - 1) |-> None]]

\* line 131: the grid of n_wires rows and n_layers columns, all None
NewGrid(rows, cols) == [w \in 1..rows |-> [l \in 1..cols |-> None]]

\* the loop of drawable_layers is exhausted: return ops_in_layer (line 99)
ReturnLayers ==
    /\ pc = "loop"
    /\ i = Len(ops)
    /\ pc' = "layers_done"
    /\ UNCHANGED <<ops, wire_map, error, i, max_layer, occupied_wires_per_layer,
                   ops_in_layer, op_layers, grid, layer, layer_ops, grid2>>

\* drawable_grid, lines 121-133: ops is not empty, the call of line 126 has
\* returned; allocate the grid and enter the loop over the layers
GridAlloc ==
    /\ pc = "layers_done"
    /\ Len(ops) # 0
    /\ grid' = NewGrid(n_wires, n_layers)
    /\ pc' = "fill"
    /\ layer' = 0
    /\ layer_ops' = ops_in_layer[1]
    /\ UNCHANGED <<ops, wire_map, error, i, max_layer, occupied_wires_per_layer,
                   ops_in_layer, op_layers, grid2>>

\* the rows written when an operation without wires is not broadcast
RowsWritten_no_broadcast(op) == {wire_map[w] : w \in op.wires}

\* the rows written when the whole span of the operation is filled
RowsWritten_span(op) ==
    (IF op.wires = {} THEN 0..(n_wires - 1) ELSE {})
        \cup {r \in WireIdx :
                \E u, v \in op.wires : wire_map[u] <= r /\ r <= wire_map[v]}

\* the rows one iteration of "for op in layer_ops" writes (lines 135-141)
RowsWritten(op) ==
    (IF op.wires = {} THEN 0..(n_wires - 1) ELSE {})
        \cup {wire_map_lookup(w) : w \in op.wires}

\* grid[row] raises IndexError for a row the iteration writes
IndexErrorOn(op) == \E r \in RowsWritten(op) : r >= n_wires

\* lines 135-141: the grid g after op was written into column l
WriteOp(g, op, l) ==
    [w \in 1..n_wires |->
        IF (w - 1) \in RowsWritten(op)
        THEN [g[w] EXCEPT ![l + 1] = op]
        ELSE g[w]]

\* one iteration of the inner loop of drawable_grid, lines 134-141; a set is
\* iterated in an order the code does not control
FillOp ==
    /\ pc = "fill"
    /\ \E op \in layer_ops :
          IF KeyErrorOn(op)
          THEN /\ pc' = "error"
               /\ error' = "KeyError"
               /\ UNCHANGED <<grid, layer_ops>>
          ELSE IF IndexErrorOn(op)
          THEN /\ pc' = "error"
               /\ error' = "IndexError"
               /\ UNCHANGED <<grid, layer_ops>>
          ELSE /\ grid' = WriteOp(grid, op, layer)
               /\ layer_ops' = layer_ops \ {op}
               /\ UNCHANGED <<pc, error>>
    /\ UNCHANGED <<ops, wire_map, i, max_layer, occupied_wires_per_layer,
                   ops_in_layer, op_layers, layer, grid2>>

\* the inner loop is exhausted: the next layer of enumerate(ops_in_layer)
\* (line 133), or return grid (line 142)
NextLayer ==
    /\ pc = "fill"
    /\ layer_ops = {}
    /\ IF layer + 1 < n_layers
       THEN /\ layer' = layer + 1
            /\ layer_ops' = ops_in_layer[layer + 2]
            /\ UNCHANGED pc
       ELSE /\ pc' = "grid_done"
            /\ UNCHANGED <<layer, layer_ops>>
    /\ UNCHANGED <<ops, wire_map, error, i, max_layer,
                   occupied_wires_per_layer, ops_in_layer, op_layers, grid, grid2>>

Next ==
    \/ EnterLayers
    \/ EnterGridEmpty
    \/ LoopBody
    \/ ReturnLayers
    \/ GridAlloc
    \/ FillOp
    \/ NextLayer

Spec == Init /\ [][Next]_vars

\* ------------------------------------------------- a second call of the grid
\* drawable_grid is called a second time with the same ops and wire_map
\* after the first call returned or raised in its fill loop.  Lines 119-131
\* of the second call: the loop of drawable_layers (LoopBody) makes no
\* choice, so line 126 gives the second call the layers of the first; only
\* the order in which the sets are iterated is free again.
SecondCall ==
    /\ \/ pc = "grid_done"
       \/ pc = "error" /\ error = "IndexError"
    /\ IF Len(ops) = 0
       THEN /\ grid2' = EmptyGrid(n_wires)
            /\ pc' = "grid_done2"
            /\ UNCHANGED <<layer, layer_ops>>
       ELSE /\ grid2' = NewGrid(n_wires, n_layers)
            /\ pc' = "fill2"
            /\ layer' = 0
            /\ layer_ops' = ops_in_layer[1]
    /\ UNCHANGED <<ops, wire_map, error, i, max_layer, occupied_wires_per_layer,
                   ops_in_layer, op_layers, grid>>

\* lines 134-141 in the second call; error keeps the outcome of the first
\* call, an exception of the second call ends in "error2"
FillOp2 ==
    /\ pc = "fill2"
    /\ \E op \in layer_ops :
          IF KeyErrorOn(op) \/ IndexErrorOn(op)
          THEN /\ pc' = "error2"
               /\ UNCHANGED <<grid2, layer_ops>>
          ELSE /\ grid2' = WriteOp(grid2, op, layer)
               /\ layer_ops' = layer_ops \ {op}
               /\ UNCHANGED pc
    /\ UNCHANGED <<ops, wire_map, error, i, max_layer, occupied_wires_per_layer,
                   ops_in_layer, op_layers, grid, layer>>

\* lines 133 and 142 in the second call
NextLayer2 ==
    /\ pc = "fill2"
    /\ layer_ops = {}
    /\ IF layer + 1 < n_layers
       THEN /\ layer' = layer + 1
            /\ layer_ops' = ops_in_layer[layer + 2]
            /\ UNCHANGED pc
       ELSE /\ pc' = "grid_done2"
            /\ UNCHANGED <<layer, layer_ops>>
    /\ UNCHANGED <<ops, wire_map, error, i, max_layer,
                   occupied_wires_per_layer, ops_in_layer, op_layers, grid, grid2>>

NextTwoCalls ==
    \/ Next
    \/ SecondCall
    \/ FillOp2
    \/ NextLayer2

TwoCallsSpec == Init /\ [][NextTwoCalls]_vars

\* ============================================================== properties
\* The OccupiedSet of an operation as the specification defines it: every
\* integer between two mapped wires of the operation, or all values of the
\* wire map for an operation without wires.
OccupiedSet(op) ==
    IF op.wires = {} THEN {wire_map[w] : w \in DOMAIN wire_map}
    ELSE {k \in WireIdx :
            \E u, v \in op.wires : wire_map[u] <= k /\ k <= wire_map[v]}

\* the wire indices an operation itself acts on
OwnRows(op) == {wire_map[w] : w \in op.wires}

Conflict(p, q) == OccupiedSet(p) \cap OccupiedSet(q) # {}

\* the positions of the input the loop has finished
Placed == 1..Len(op_layers)

\* drawable_layers has returned its layer list
LayersReturned ==
    \/ pc = "layers_done"
    \/ pc = "fill"
    \/ pc = "grid_done" /\ Len(ops) > 0
    \/ pc = "error" /\ error = "IndexError"

\* drawable_grid has returned its grid
GridReturned == pc = "grid_done"

\* C1: after every processed prefix, two distinct operations of one layer
\* have disjoint OccupiedSets.
C1_NonOverlap ==
    \A l \in 1..Len(ops_in_layer) :
        \A p, q \in ops_in_layer[l] : p # q => ~Conflict(p, q)

\* a layer holds an operation spanning several indices next to another
\* operation that occupies a wire
C1_Witness ==
    \E l \in 1..Len(ops_in_layer) :
        \E p, q \in ops_in_layer[l] :
            /\ p # q
            /\ Cardinality(OccupiedSet(p)) >= 2
            /\ OccupiedSet(q) # {}

\* C2: an operation whose OccupiedSet intersects that of an earlier operation
\* of the input is assigned a strictly later layer than the earlier one.
C2_BlockingBySpan ==
    \A j, k \in Placed :
        (j < k /\ Conflict(ops[j], ops[k])) => op_layers[k] > op_layers[j]

\* a later operation sits on a wire strictly inside the span of an earlier
\* operation that does not act on that wire, and is in a later layer
C2_Witness ==
    \E j, k \in Placed :
        /\ j < k
        /\ ops[j].wires # {}
        /\ ops[k].wires # {}
        /\ OwnRows(ops[k]) \cap OwnRows(ops[j]) = {}
        /\ OwnRows(ops[k]) \subseteq OccupiedSet(ops[j])
        /\ op_layers[k] > op_layers[j]

\* the placement the specification describes: 0 when no layer conflicts,
\* else one more than the last conflicting layer
ReferenceLayer(occ, occs) ==
    LET conflicting == {l \in 0..(Len(occs) - 1) : occs[l + 1] \cap occ # {}}
    IN  IF conflicting = {} THEN 0 ELSE 1 + Max(conflicting)

\* C3: the layer every loop iteration places its operation in is the
\* reference layer for the occupancy the iteration started with.
C3_PlacementIsReference ==
    [][(pc = "loop" /\ i' = i + 1) =>
          op_layers'[i'] = ReferenceLayer(OccupiedSet(ops[i']),
                                          occupied_wires_per_layer)]_vars

\* an operation was pushed back past a free layer and stopped after a
\* conflicting one: it went into a layer >= 1 that existed before it came
C3_Witness ==
    \E j, k \in Placed :
        j < k /\ op_layers[k] >= 1 /\ op_layers[j] = op_layers[k]

\* the wire map is dense: its values are exactly 0..n-1 for its n labels
DenseMap ==
    {wire_map[w] : w \in DOMAIN wire_map} = 0..(Cardinality(DOMAIN wire_map) - 1)

\* no operation object occurs twice in the input
DistinctOps == \A j, k \in 1..Len(ops) : j # k => ops[j] # ops[k]

\* the cells <<row, column>> (0-indexed) of the grid that hold op
Cells(op) ==
    {c \in (0..(Len(grid) - 1)) \X (0..(Len(ops_in_layer) - 1)) :
        grid[c[1] + 1][c[2] + 1] = op}

\* the number of cells the specification gives an operation
CellCount(op) ==
    IF op.wires = {} THEN Cardinality(DOMAIN wire_map)
    ELSE Cardinality(op.wires)

\* every operation holds CellCount cells, all in one column, the column of
\* a layer it is a member of
CellsOfOps ==
    \A k \in 1..Len(ops) :
        /\ Cardinality(Cells(ops[k])) = CellCount(ops[k])
        /\ \A c, d \in Cells(ops[k]) : c[2] = d[2]
        /\ \A c \in Cells(ops[k]) : c[2] = op_layers[k]

\* a step of the fill loop changes no cell that already holds an operation
NoOverwrite ==
    pc = "fill" =>
        \A w \in 1..Len(grid) : \A l \in 1..Len(grid[w]) :
            grid[w][l] # None => grid'[w][l] = grid[w][l]

\* C4 as stated: for a non-empty input and a dense wire map every operation
\* is in exactly as many cells of the returned grid as it has wires (all
\* rows without wires), all in the column of its layer.
C4_AsStated ==
    (GridReturned /\ Len(ops) > 0 /\ DenseMap) => CellsOfOps

\* C4 (amended): for a non-empty input of distinct operations and a dense
\* wire map, no cell write overwrites an operation and every operation is in
\* exactly as many cells of the returned grid as it has wires (all rows
\* without wires), all in the column of its layer.
C4_GridCells ==
    /\ []((GridReturned /\ Len(ops) > 0 /\ DenseMap /\ DistinctOps) => CellsOfOps)
    /\ [][(DenseMap /\ DistinctOps) => NoOverwrite]_vars

\* a returned grid of three rows with a two-wire operation, an operation
\* without wires and a third operation
C4_Witness ==
    /\ GridReturned /\ DenseMap /\ DistinctOps
    /\ Len(ops) = 3
    /\ Cardinality(DOMAIN wire_map) = 3
    /\ \E j, k \in 1..Len(ops) :
          Cardinality(ops[j].wires) = 2 /\ ops[k].wires = {}

\* the members of all layers
Members == UNION {ops_in_layer[l] : l \in 1..Len(ops_in_layer)}

RECURSIVE SumOfSizes(_)
SumOfSizes(lays) ==
    IF lays = <<>> THEN 0
    ELSE Cardinality(Head(lays)) + SumOfSizes(Tail(lays))

\* C5: for an input of distinct operations the returned layers partition
\* the input: every input operation is in exactly one layer, the layers hold
\* nothing else, and their sizes add up to the length of the input.
C5_Partition ==
    (LayersReturned /\ DistinctOps) =>
        /\ \A k \in 1..Len(ops) :
              Cardinality({l \in 1..Len(ops_in_layer) : ops[k] \in ops_in_layer[l]}) = 1
        /\ Members \subseteq {ops[k] : k \in 1..Len(ops)}
        /\ SumOfSizes(ops_in_layer) = Len(ops)

\* three distinct operations were returned in two layers
C5_Witness ==
    /\ LayersReturned /\ DistinctOps
    /\ Len(ops) = 3
    /\ Len(ops_in_layer) = 2

\* C6: after every prefix no empty layer lies below a non-empty one; the
\* layers returned for a non-empty input are all non-empty, and for an empty
\* input exactly one empty layer is returned.
C6_Density ==
    /\ \A l, m \in 1..Len(ops_in_layer) :
          (l < m /\ ops_in_layer[l] = {}) => ops_in_layer[m] = {}
    /\ (LayersReturned /\ Len(ops) > 0) =>
          \A l \in 1..Len(ops_in_layer) : ops_in_layer[l] # {}
    /\ (LayersReturned /\ Len(ops) = 0) => ops_in_layer = <<{}>>

\* a non-empty input was returned in three layers
C6_Witness ==
    LayersReturned /\ Len(ops_in_layer) = 3

\* the wire indices an operation acts on; an operation without wires acts
\* on all wires
ActsOn(op) == IF op.wires = {} THEN {wire_map[w] : w \in DOMAIN wire_map}
              ELSE OwnRows(op)

\* no operation before position k of the input conflicts with ops[k]
NoEarlierConflict(k) == \A m \in 1..(k - 1) : ~Conflict(ops[m], ops[k])

\* C7 as stated: two operations that act on disjoint wires, with no
\* operation between them in the input that conflicts with either, are
\* placed in the same layer.
C7_AsStated ==
    \A j, k \in Placed :
        ( /\ j < k
          /\ ActsOn(ops[j]) \cap ActsOn(ops[k]) = {}
          /\ \A m \in (j + 1)..(k - 1) :
                ~Conflict(ops[m], ops[j]) /\ ~Conflict(ops[m], ops[k]) )
        => op_layers[j] = op_layers[k]

\* C7 (amended): two operations whose OccupiedSets are disjoint and neither
\* of which conflicts with any operation before it in the input are placed
\* in the same layer, layer 0.
C7_LeftmostPacking ==
    \A j, k \in Placed :
        ( /\ j < k
          /\ ~Conflict(ops[j], ops[k])
          /\ NoEarlierConflict(j)
          /\ NoEarlierConflict(k) )
        => op_layers[j] = 0 /\ op_layers[k] = 0

\* two such operations, both occupying wires, with an operation between
\* them that went to a later layer
C7_Witness ==
    \E j, k \in Placed :
        /\ DenseMap
        /\ j + 1 < k
        /\ OccupiedSet(ops[j]) # {} /\ OccupiedSet(ops[k]) # {}
        /\ ~Conflict(ops[j], ops[k])
        /\ NoEarlierConflict(j)
        /\ NoEarlierConflict(k)
        /\ op_layers[j + 1] >= 1

\* an operation without wires is the only member of its layer
AloneInLayer ==
    \A l \in 1..Len(ops_in_layer) :
        \A z \in ops_in_layer[l] : z.wires = {} => ops_in_layer[l] = {z}

\* a loop step that takes an operation without wires while the last layer
\* has an occupied wire appends a layer that holds this operation only
NewLayerWhenOccupied ==
    ( /\ pc = "loop"
      /\ i' = i + 1
      /\ ops[i'].wires = {}
      /\ occupied_wires_per_layer[max_layer + 1] # {} )
    => /\ op_layers'[i'] = max_layer + 1
       /\ max_layer' = max_layer + 1
       /\ Len(ops_in_layer') = Len(ops_in_layer) + 1
       /\ ops_in_layer'[max_layer' + 1] = {ops[i']}

\* C8 as stated: in every case an operation without wires shares its layer
\* with no other operation.
C8_AsStated == AloneInLayer

\* C8 (amended): an operation without wires is placed in a new layer of its
\* own whenever a wire is occupied in the last layer, and, provided the wire
\* map has at least one wire, it shares its layer with no other operation.
C8_BroadcastIsolation ==
    /\ [][NewLayerWhenOccupied]_vars
    /\ [](Cardinality(DOMAIN wire_map) >= 1 => AloneInLayer)

\* an operation without wires went into a new layer behind an occupied one
\* and a later operation was kept out of that layer
C8_Witness ==
    /\ DenseMap
    /\ Cardinality(DOMAIN wire_map) >= 1
    /\ \E j, k, m \in Placed :
          /\ j < k /\ k < m
          /\ ops[j].wires # {}
          /\ ops[k].wires = {}
          /\ op_layers[k] = op_layers[j] + 1
          /\ op_layers[m] > op_layers[k]

\* the grid has the cell of row w and column l (0-indexed)
HasCell(w, l) == w + 1 \in 1..Len(grid) /\ l + 1 \in 1..Len(grid[w + 1])

\* the rows of the span of an operation that are not its own wires
PassThroughRows(op) == IF op.wires = {} THEN {} ELSE OccupiedSet(op) \ OwnRows(op)

\* C9: in the returned grid, cell [w][l] holds op exactly when op is a
\* member of layer l and op has no wires or w is the index of one of its
\* wires; every cell holds None or an input operation; the pass-through rows
\* of a multi-wire operation are None in its column, and a later operation
\* on such a row is in a later column.
C9_GridContent ==
    GridReturned =>
        /\ \A k \in 1..Len(ops) :
              \A w \in WireIdx \cup (0..Len(grid)) : \A l \in 0..(Len(ops_in_layer) - 1) :
                  (HasCell(w, l) /\ grid[w + 1][l + 1] = ops[k])
                  <=> ( /\ ops[k] \in ops_in_layer[l + 1]
                        /\ \/ ops[k].wires = {} /\ w < Cardinality(DOMAIN wire_map)
                           \/ w \in OwnRows(ops[k]) )
        /\ \A w \in 1..Len(grid) : \A l \in 1..Len(grid[w]) :
              grid[w][l] \in {None} \cup {ops[k] : k \in 1..Len(ops)}
        /\ \A k \in 1..Len(ops) : \A w \in PassThroughRows(ops[k]) :
              /\ HasCell(w, op_layers[k])
              /\ grid[w + 1][op_layers[k] + 1] = None
        /\ \A j, k \in 1..Len(ops) :
              (j < k /\ OwnRows(ops[k]) \cap PassThroughRows(ops[j]) # {})
              => /\ op_layers[k] > op_layers[j]
                 /\ \A w \in OwnRows(ops[k]) :
                       HasCell(w, op_layers[k]) /\ grid[w + 1][op_layers[k] + 1] = ops[k]

\* a returned grid in which a later operation sits on a pass-through row of
\* an earlier one
C9_Witness ==
    /\ GridReturned
    /\ \E j, k \in 1..Len(ops) :
          j < k /\ OwnRows(ops[k]) \cap PassThroughRows(ops[j]) # {}

\* C10 as stated: every row of the returned grid has at least one column
\* whenever the input has an operation or the wire map has a wire.
C10_AsStated ==
    (GridReturned /\ (Len(ops) >= 1 \/ Cardinality(DOMAIN wire_map) >= 1))
    => \A w \in 1..Len(grid) : Len(grid[w]) >= 1

\* C10 (amended): whenever the input has at least one operation, the
\* returned grid has layerCount >= 1: there is at least one layer and every
\* row has one column per layer.
C10_ColumnsOfNonEmptyInput ==
    (GridReturned /\ Len(ops) >= 1)
    => /\ Len(ops_in_layer) >= 1
       /\ \A w \in 1..Len(grid) : Len(grid[w]) = Len(ops_in_layer)

\* a grid with rows was returned for a non-empty input in a single layer
C10_Witness ==
    DenseMap /\ GridReturned /\ Len(ops) >= 1 /\ Len(grid) >= 1 /\ Len(ops_in_layer) = 1

\* C11: for an empty ops drawable_grid returns without running the layer
\* assignment: one empty row when the wire map has no wires, else one row
\* without columns per wire; it raises no error.
C11_EmptyInputGrid ==
    /\ (pc = "grid_done" /\ Len(ops) = 0) =>
          /\ error = "none"
          /\ ops_in_layer = <<>> /\ occupied_wires_per_layer = <<>>
          /\ op_layers = <<>>
          /\ Len(grid) = (IF Cardinality(DOMAIN wire_map) = 0 THEN 1
                          ELSE Cardinality(DOMAIN wire_map))
          /\ \A w \in 1..Len(grid) : grid[w] = <<>>
    /\ (pc = "error" /\ Len(ops) = 0) => FALSE

\* drawable_grid returned the single empty row for no operations and no
\* wires
C11_Witness ==
    pc = "grid_done" /\ Len(ops) = 0 /\ DOMAIN wire_map = {} /\ Len(grid) = 1

\* C12: for a non-empty ops and a dense wire map the returned grid has one
\* row per entry of the wire map, also for wires no operation uses, and
\* every row has one column per layer of drawable_layers.
C12_GridShape ==
    (GridReturned /\ Len(ops) > 0 /\ DenseMap) =>
        /\ Len(grid) = Cardinality(DOMAIN wire_map)
        /\ \A w \in 1..Len(grid) : Len(grid[w]) = Len(ops_in_layer)

\* a grid of two columns was returned for a dense map of three wires, one
\* of which no operation uses
C12_Witness ==
    /\ GridReturned /\ DenseMap
    /\ Cardinality(DOMAIN wire_map) = 3
    /\ Len(ops_in_layer) = 2
    /\ \E x \in DOMAIN wire_map : \A k \in 1..Len(ops) :
          ops[k].wires # {} /\ x \notin ops[k].wires

\* the operation uses a wire label that is no key of the wire map
MissingLabel(op) == ~(op.wires \subseteq DOMAIN wire_map)

\* no list is returned for an input with a missing label, no operation with
\* a missing label is ever placed, and the KeyError state is the one of the
\* first such operation, with exactly the operations before it placed
NothingReturnedForMissingLabel ==
    /\ (pc \in {"layers_done", "fill", "grid_done"} \/ error = "IndexError")
          => \A k \in 1..Len(ops) : ~MissingLabel(ops[k])
    /\ \A k \in Placed : ~MissingLabel(ops[k])
    /\ error = "KeyError" =>
          /\ pc = "error"
          /\ i < Len(ops)
          /\ MissingLabel(ops[i + 1])
          /\ Len(op_layers) = i
          /\ grid = <<>>

\* the loop step that reaches an operation with a missing label raises the
\* KeyError, and nothing follows an error
RaisedAtPointOfUse ==
    /\ (pc = "loop" /\ i < Len(ops) /\ MissingLabel(ops[i + 1]))
          => (pc' = "error" /\ error' = "KeyError")
    /\ pc = "error" => pc' = "error"

\* C13: an operation with a wire label absent from the wire map ends the
\* call with a KeyError when it is processed: no layer list is returned, the
\* label is not replaced by a default index, also after earlier operations
\* were placed.
C13_MissingLabelIsFatal ==
    /\ []NothingReturnedForMissingLabel
    /\ [][RaisedAtPointOfUse]_vars

\* the KeyError was raised after two operations had been placed
C13_Witness ==
    error = "KeyError" /\ Len(op_layers) = 2 /\ Len(ops_in_layer) = 2
\* drawable_layers run a second time on the same arguments, lines 68-97: the
\* locals after k iterations of the loop
RECURSIVE SecondRunLayers(_)
SecondRunLayers(k) ==
    IF k = 0
    THEN [max_layer |-> 0, occupied_wires_per_layer |-> <<{}>>,
          ops_in_layer |-> <<{}>>]
    ELSE LET prev == SecondRunLayers(k - 1)
             op == ops[k]
             op_occ == op_occupied_wires(op)
             op_layer == _recursive_find_layer(prev.max_layer, op_occ,
                                               prev.occupied_wires_per_layer)
             grow == NeedNewLayer(op_layer, prev.max_layer)
             occs == IF grow THEN AppendLayer(prev.occupied_wires_per_layer)
                     ELSE prev.occupied_wires_per_layer
             lays == IF grow THEN AppendLayer(prev.ops_in_layer)
                     ELSE prev.ops_in_layer
         IN  [max_layer |-> IF grow THEN prev.max_layer + 1 ELSE prev.max_layer,
              occupied_wires_per_layer |-> UpdateOccupied(occs, op_layer, op_occ),
              ops_in_layer |-> AddOp(lays, op_layer, op)]

\* C14: two calls of drawable_grid with the same ops and wire_map end the
\* same way whatever order the layer sets are iterated in: a second run of
\* drawable_layers returns the same layers, when both calls of drawable_grid
\* return the grids are identical, and the second call raises exactly when
\* the first one raised.
C14_Determinism ==
    /\ pc = "layers_done" => SecondRunLayers(Len(ops)).ops_in_layer = ops_in_layer
    /\ pc = "grid_done2" => (error = "none" /\ grid2 = grid)
    /\ pc = "error2" => error = "IndexError"
C14_Witness ==
    /\ pc = "grid_done2"
    /\ Len(grid2) >= 2
    /\ \E l \in DOMAIN ops_in_layer : Cardinality(ops_in_layer[l]) >= 2
    /\ \E l \in DOMAIN ops_in_layer : Cardinality(ops_in_layer[l]) = 1

\* the loop is about to search a layer for ops[i + 1] (line 87)
SearchStarts == pc = "loop" /\ i < Len(ops) /\ ~KeyErrorOn(ops[i + 1])

\* the search about to start reads max_layer, max_layer - 1, ... and stops
\* at the latest at index 0; it returns the index after the occupied layer
\* it stopped at, or 0
SearchBounded ==
    SearchStarts =>
        LET occ == op_occupied_wires(ops[i + 1])
            reads == find_layer_reads(max_layer, occ, occupied_wires_per_layer)
            ret == _recursive_find_layer(max_layer, occ, occupied_wires_per_layer)
            last == reads[Len(reads)]
        IN  /\ Len(reads) \in 1..(max_layer + 1)
            /\ \A k \in 1..Len(reads) :
                  /\ reads[k] = max_layer - (k - 1)
                  /\ reads[k] \in 0..max_layer
                  /\ reads[k] + 1 \in DOMAIN occupied_wires_per_layer
            /\ ret \in 0..(max_layer + 1)
            /\ ret = IF occupied_wires_per_layer[last + 1] \cap occ # {}
                     THEN last + 1 ELSE 0
            /\ ret = 0 => last = 0

\* a loop iteration appends at most one layer, and the index the search
\* returned is then an index of both lists
ValidIndexAfterAppend ==
    i' = i + 1 =>
        /\ op_layers'[i'] \in 0..(max_layer + 1)
        /\ Len(ops_in_layer') \in {Len(ops_in_layer), Len(ops_in_layer) + 1}
        /\ op_layers'[i'] + 1 \in DOMAIN ops_in_layer'
        /\ op_layers'[i'] + 1 \in DOMAIN occupied_wires_per_layer'
        /\ ops[i'] \in ops_in_layer'[op_layers'[i'] + 1]

\* C15: every search drawable_layers starts at layer_to_check = max_layer
\* terminates: it reads only indices in 0..max_layer, makes at most
\* max_layer + 1 intersection tests and returns an index in
\* 0..max_layer + 1, which after the at most one append that follows is an
\* index of both the layer list and the occupancy list.
C15_SearchBounded ==
    /\ []SearchBounded
    /\ [][ValidIndexAfterAppend]_vars
C15_Witness ==
    /\ Len(op_layers) = 3
    /\ op_layers = <<0, 1, 2>>
    /\ Len(ops_in_layer) = 3 /\ Len(occupied_wires_per_layer) = 3

\* the layer list and the occupancy list before a step, extended by what an
\* append at the end adds (an empty layer), up to the length after the step
Extended(lst, n) == [l \in 1..n |-> IF l <= Len(lst) THEN lst[l] ELSE {}]

\* what one loop iteration (i' = i + 1) changes, with target the layer the
\* search returned for ops[i']
OnlyTargetLayerChanges ==
    i' = i + 1 =>
        LET target == op_layers'[i']
            n == Len(ops_in_layer')
            lays == Extended(ops_in_layer, n)
            occs == Extended(occupied_wires_per_layer, n)
        IN  /\ SubSeq(op_layers', 1, i) = op_layers
            /\ n \in {Len(ops_in_layer), Len(ops_in_layer) + 1}
            /\ Len(occupied_wires_per_layer') = n
            /\ (n = Len(ops_in_layer) + 1) <=> (target = max_layer + 1)
            /\ max_layer' = n - 1
            /\ \A l \in 1..n :
                  IF l = target + 1
                  THEN /\ ops_in_layer'[l] = lays[l] \cup {ops[i']}
                       /\ lays[l] \subseteq ops_in_layer'[l]
                       /\ occs[l] \subseteq occupied_wires_per_layer'[l]
                  ELSE /\ ops_in_layer'[l] = lays[l]
                       /\ occupied_wires_per_layer'[l] = occs[l]

\* no other step of the program touches the layers once they are initialised
LayersOnlyChangedByLoop ==
    (pc # "start" /\ i' = i) =>
        UNCHANGED <<max_layer, ops_in_layer, occupied_wires_per_layer, op_layers>>

\* C16: processing one operation changes only its target layer: membership
\* and occupancy of every other layer are unchanged, no placed operation
\* moves or is removed, no wire index leaves an occupancy, and the number of
\* layers grows by at most one, by an append at the end, exactly when the
\* target index is max_layer + 1.
C16_Frame == [][OnlyTargetLayerChanges /\ LayersOnlyChangedByLoop]_vars
C16_Witness ==
    /\ Len(op_layers) = 3
    /\ op_layers = <<0, 1, 0>>
    /\ Cardinality(ops_in_layer[1]) = 2 /\ Cardinality(ops_in_layer[2]) = 1
    /\ Cardinality(occupied_wires_per_layer[1]) >= 2

\* the length of the longest chain of placed operations that ends with
\* position k: increasing positions, each operation conflicting with the
\* next one of the chain
RECURSIVE LongestChainTo(_)
LongestChainTo(k) ==
    LET before == {j \in 1..(k - 1) : Conflict(ops[j], ops[k])}
    IN  IF before = {} THEN 1
        ELSE 1 + Max({LongestChainTo(j) : j \in before})

LongestChain ==
    IF Placed = {} THEN 0 ELSE Max({LongestChainTo(k) : k \in Placed})

NonEmptyLayers == {l \in 1..Len(ops_in_layer) : ops_in_layer[l] # {}}

\* C17: after every prefix of the input (the states between two iterations
\* of the loop, the whole input included), every operation in a layer l >= 1
\* has an earlier operation in layer l - 1 whose OccupiedSet intersects its
\* own (so it cannot move one layer earlier), and the number of non-empty
\* layers is the length of the longest chain of input-ordered, successively
\* conflicting operations.
C17_PushedBackAsFarAsPossible ==
    pc = "loop" =>
        /\ \A k \in Placed :
              /\ ops[k] \in ops_in_layer[op_layers[k] + 1]
              /\ op_layers[k] >= 1 =>
                    \E j \in 1..(k - 1) :
                        /\ op_layers[j] = op_layers[k] - 1
                        /\ ops[j] \in ops_in_layer[op_layers[k]]
                        /\ Conflict(ops[j], ops[k])
        /\ \A l \in 2..Len(ops_in_layer) : \A p \in ops_in_layer[l] :
              \E q \in ops_in_layer[l - 1] : Conflict(q, p)
        /\ Cardinality(NonEmptyLayers) = LongestChain
C17_Witness ==
    /\ pc = "loop"
    /\ op_layers = <<0, 1, 1>>
    /\ Cardinality(ops_in_layer[2]) = 2
    /\ LongestChain = 2

\* the locals of drawable_layers are initialised: between two iterations of
\* its loop, or after the loop ended
LayersInitialised == pc = "loop" \/ pc = "error" \/ LayersReturned

\* the union of the OccupiedSets of a set of operations
OccupiedUnion(members) == UNION {OccupiedSet(p) : p \in members}

\* C18: at the start and the end of every loop iteration the occupancy list
\* and the layer list both have length max_layer + 1, and every occupancy
\* entry is the union of the OccupiedSets of the operations of its layer
\* (empty for a layer without operations).
C18_LoopInvariant ==
    LayersInitialised =>
        /\ Len(ops_in_layer) = max_layer + 1
        /\ Len(occupied_wires_per_layer) = max_layer + 1
        /\ \A l \in 1..(max_layer + 1) :
              occupied_wires_per_layer[l] = OccupiedUnion(ops_in_layer[l])
C18_Witness ==
    /\ pc = "loop" /\ i = 2 /\ Len(ops) = 3
    /\ \E l \in 1..Len(ops_in_layer) :
          /\ Cardinality(ops_in_layer[l]) = 2
          /\ Cardinality(occupied_wires_per_layer[l]) = 3

====
